---- MODULE Spec2Model ----
(***************************************************************************)
(* Recurring-expense materialization and period-scoped mutation engine of  *)
(* fin-planner (src/src/contexts/FinanceContext.tsx).                      *)
(*                                                                         *)
(* An ISO calendar date 'yyyy-MM-dd' is the tuple <<y, m, d>>.             *)
(* `new Date(iso)` / parseISO(iso) values are compared through DayNum.     *)
(***************************************************************************)
EXTENDS Integers, Sequences, FiniteSets, TLC

(***************************************************************************)
(* Calendar (date-fns / JavaScript Date on calendar dates).                *)
(***************************************************************************)
IsLeap(y) == (y % 4 = 0 /\ y % 100 # 0) \/ y % 400 = 0

\* lastDayOfMonth(base).getDate()
DaysInMonth(y, m) ==
    IF m = 2 THEN (IF IsLeap(y) THEN 29 ELSE 28)
    ELSE IF m \in {4, 6, 9, 11} THEN 30 ELSE 31

DaysInYear(y) == IF IsLeap(y) THEN 366 ELSE 365

RECURSIVE DaysBeforeYear(_)
DaysBeforeYear(y) == IF y <= 2025 THEN 0 ELSE DaysBeforeYear(y - 1) + DaysInYear(y - 1)

RECURSIVE DaysBeforeMonth(_, _)
DaysBeforeMonth(y, m) == IF m <= 1 THEN 0 ELSE DaysBeforeMonth(y, m - 1) + DaysInMonth(y, m - 1)

\* new Date(iso).getTime() / parseISO(iso).getTime(), in whole days (day 1 is 2025-01-01)
DayNum(iso) == DaysBeforeYear(iso[1]) + DaysBeforeMonth(iso[1], iso[2]) + iso[3]

RECURSIVE YmdFrom(_, _, _)
YmdFrom(y, m, n) ==
    IF n > DaysInYear(y) /\ m = 1 THEN YmdFrom(y + 1, 1, n - DaysInYear(y))
    ELSE IF n > DaysInMonth(y, m) THEN YmdFrom(y, m + 1, n - DaysInMonth(y, m))
    ELSE <<y, m, n>>

\* format(date, 'yyyy-MM-dd') of the date that is n days after the epoch
FromDayNum(n) == YmdFrom(2025, 1, n)

\* date-fns addDays
addDays(iso, k) == FromDayNum(DayNum(iso) + k)

\* date-fns addMonths(date, 1): next calendar month, day clamped to its length
addMonths1(iso) ==
    LET y2 == IF iso[2] = 12 THEN iso[1] + 1 ELSE iso[1]
        m2 == IF iso[2] = 12 THEN 1 ELSE iso[2] + 1
        d2 == IF iso[3] > DaysInMonth(y2, m2) THEN DaysInMonth(y2, m2) ELSE iso[3]
    IN  <<y2, m2, d2>>

Min(a, b) == IF a < b THEN a ELSE b
Max(a, b) == IF a > b THEN a ELSE b

\* getDayOfMonthFromISODate
getDayOfMonthFromISODate(iso) == iso[3]

\* buildCandidateInMonth (inner function of getFixedPurchaseDateForPeriod)
buildCandidateInMonth(base, desiredDayOfMonth) ==
    LET lastDay == DaysInMonth(base[1], base[2])
        safeDay == Min(Max(desiredDayOfMonth, 1), lastDay)
    IN  <<base[1], base[2], safeDay>>

\* a first candidate that stays in the month of the period start
ShiftedCandidate_NoShift(periodStart, desiredDayOfMonth) ==
    buildCandidateInMonth(periodStart, desiredDayOfMonth)

\* the first candidate, shifted to the next month when it falls before the period start
ShiftedCandidate(periodStart, desiredDayOfMonth) ==
    LET candidate == buildCandidateInMonth(periodStart, desiredDayOfMonth)
    IN  IF DayNum(candidate) < DayNum(periodStart)
        THEN buildCandidateInMonth(addMonths1(periodStart), desiredDayOfMonth)
        ELSE candidate

\* a projector without the safety clamp
ClampToPeriodEnd_Missing(candidate, periodEnd) == candidate

\* the safety clamp to the last day inside the period
ClampToPeriodEnd(candidate, periodEnd) ==
    IF DayNum(candidate) >= DayNum(periodEnd) THEN addDays(periodEnd, -1) ELSE candidate

getFixedPurchaseDateForPeriod(period, desiredDayOfMonth) ==
    ClampToPeriodEnd(ShiftedCandidate(period.startDate, desiredDayOfMonth), period.endDate)


(***************************************************************************)
(* Bounds of the model and the small input sets the operations draw from.  *)
(***************************************************************************)
\* the number of operation calls of one run
MaxCalls == 3

\* the dates a billing period may start or end on
PeriodDates == {<<2026, 1, 6>>, <<2026, 2, 6>>, <<2026, 3, 6>>}
\* the purchase dates a caller may pass
ExpenseDates == {<<2026, 1, 15>>, <<2026, 2, 6>>, <<2026, 2, 20>>}

\* fixedTemplateId of an expense that is linked to no template
NoTemplate == 0
\* end_date of an open-ended template
NullDate == <<0, 0, 0>>
\* the result of a find that matched nothing
Null == [id |-> 0]

\* Omit<Expense, 'id' | 'createdAt' | 'displayOrder'> values passed to addExpense
NewExpenseForms ==
    {[description |-> "rent", amount |-> 100, purchaseDate |-> d,
      categoryId |-> "c1", subcategoryId |-> "s1", type |-> "fixed"] : d \in ExpenseDates}
    \cup
    {[description |-> "rent", amount |-> 100, purchaseDate |-> <<2026, 1, 15>>,
      categoryId |-> "c1", subcategoryId |-> "s1", type |-> "variable"]}

\* Partial<Expense> values passed to updateExpense; `fields` names the keys that are
\* not undefined
UpdateForms ==
    {[fields |-> {"description", "amount", "categoryId", "subcategoryId"},
      description |-> "gym", amount |-> 150, purchaseDate |-> NullDate,
      categoryId |-> "c2", subcategoryId |-> "s2", type |-> ""]}
    \cup
    {[fields |-> {"description", "amount", "purchaseDate", "categoryId", "subcategoryId"},
      description |-> "gym", amount |-> 150, purchaseDate |-> d,
      categoryId |-> "c2", subcategoryId |-> "s2", type |-> ""] : d \in ExpenseDates}
    \cup
    {[fields |-> {"type"},
      description |-> "", amount |-> 0, purchaseDate |-> NullDate,
      categoryId |-> "", subcategoryId |-> "", type |-> "variable"]}

Defined(updates, f) == f \in updates.fields

(***************************************************************************)
(* State: the tables of the remote store, the React snapshot `data` the    *)
(* operations read, and the outcome of the most recent call.               *)
(***************************************************************************)
VARIABLES
    expenses,                   \* table expenses
    billing_periods,            \* table billing_periods
    fixed_expense_templates,    \* table fixed_expense_templates
    fixed_expense_exclusions,   \* table fixed_expense_exclusions
    data,                       \* useState<FinanceData>: the last fetched snapshot
    last,                       \* the most recent call: arguments, store errors, outcome
    ncalls,                     \* the number of calls made so far
    removedCurrent,             \* history: (template, period interval) pairs removed with scope=current
    retired,                    \* history: templates a completed scope=future delete was issued for
    edited,                     \* history: the latest completed scope=future edit of each template
    projIn, projOut,            \* input and result of one day-of-month projection
    goalIn, goalOut,            \* goals, overrides and query of one getGoalForCategory call; its result
    lookIn, lookOut,            \* date and results of one period lookup
    sessions,                   \* the operations two sessions run one store call at a time
    category_goals,             \* table category_goals
    category_goal_overrides,    \* table category_goal_overrides
    goalData                    \* the slices data.goals and data.goalOverrides of the snapshot

\* the goal tables and their snapshot
goalState == <<category_goals, category_goal_overrides, goalData>>

\* fetchData: the goal slices of the snapshot
fetchGoals(goals, goalOverrides) == [goals |-> goals, goalOverrides |-> goalOverrides]

vars == <<expenses, billing_periods, fixed_expense_templates, fixed_expense_exclusions,
          data, last, ncalls, removedCurrent, retired, edited, projIn, projOut,
          goalState, goalIn, goalOut, lookIn, lookOut, sessions>>

Ids(S) == {r.id : r \in S}

\* gen_random_uuid(): an id no row of the table carries
FreshId(S) == CHOOSE i \in 1..(Cardinality(S) + 1) : i \notin Ids(S)

\* a membership test that takes the period's end date as its last day
InPeriod_EndInclusive(iso, period) ==
    DayNum(iso) >= DayNum(period.startDate) /\ DayNum(iso) <= DayNum(period.endDate)

\* purchaseDate >= startDate && purchaseDate < endDate on `new Date(...)` values
InPeriod(iso, period) ==
    DayNum(iso) >= DayNum(period.startDate) /\ DayNum(iso) < DayNum(period.endDate)

\* the value of the column a select orders by
SortKey(r, by) ==
    CASE by = "purchase_date" -> DayNum(r.purchaseDate)
      [] by = "start_date" -> DayNum(r.startDate)
      [] by = "id" -> r.id

\* Array.prototype.find on rows the store returned ordered by column `by` descending:
\* the match with the greatest key; equal keys come in an order the store picks (tieHi)
FindFirst(S, by, tieHi) ==
    IF S = {} THEN Null
    ELSE LET top == {r \in S : \A q \in S : SortKey(q, by) <= SortKey(r, by)}
         IN  IF tieHi THEN CHOOSE r \in top : \A q \in top : q.id <= r.id
             ELSE CHOOSE r \in top : \A q \in top : q.id >= r.id

\* the rows of S as the store returns them under ORDER BY `by` DESC
RECURSIVE OrderDesc(_, _, _)
OrderDesc(S, by, tieHi) ==
    IF S = {} THEN <<>>
    ELSE LET r == FindFirst(S, by, tieHi)
         IN  <<r>> \o OrderDesc(S \ {r}, by, tieHi)

\* fetchData: the slices of the snapshot the operations read between calls
fetchData(exp, per) == [expenses |-> exp, billingPeriods |-> per]

\* getPeriodForExpense
getPeriodForExpense(expense, tieHi) ==
    FindFirst({p \in data.billingPeriods : InPeriod(expense.purchaseDate, p)}, "start_date", tieHi)

\* getBillingPeriodForDate
getBillingPeriodForDate(date, tieHi) ==
    FindFirst({period \in data.billingPeriods : InPeriod(date, period)}, "start_date", tieHi)

\* data.expenses.find(e => e.fixedTemplateId === tid && inside period)
expenseInPeriod(tid, period, tieHi) ==
    FindFirst({e \in data.expenses : e.fixedTemplateId = tid /\ InPeriod(e.purchaseDate, period)},
              "purchase_date", tieHi)

(***************************************************************************)
(* Store calls.  F is the set of call numbers (counted from 1 within one   *)
(* operation) on which the store returns an error and changes nothing.     *)
(* acc counts the calls issued and records whether one failed and whether  *)
(* a write was issued after a failure.                                     *)
(***************************************************************************)
NoCalls == [n |-> 0, failed |-> FALSE, after |-> FALSE]

CallOk(acc, F) == (acc.n + 1) \notin F

Issued(acc, ok, isWrite) ==
    [n |-> acc.n + 1, failed |-> acc.failed \/ ~ok, after |-> acc.after \/ (acc.failed /\ isWrite)]

\* what one operation leaves behind: the tables, the calls it issued, whether it reached
\* its trailing fetchData, and what its caller and the user see
Outcome(exp, per, tpl, exc, acc, fetched, result, toast) ==
    [exp |-> exp, per |-> per, tpl |-> tpl, exc |-> exc, acc |-> acc,
     fetched |-> fetched, result |-> result, toast |-> toast]

(***************************************************************************)
(* addExpense                                                              *)
(***************************************************************************)
\* data.billingPeriods.filter(period => templateStart <= periodEnd)
addExpensePeriods(expense, tieHi) ==
    SelectSeq(OrderDesc(data.billingPeriods, "start_date", tieHi),
              LAMBDA period : DayNum(expense.purchaseDate) <= DayNum(period.endDate))

\* for (const period of periods) { await supabase.from('expenses').insert(...) }
RECURSIVE addExpenseLoop(_, _, _, _, _)
addExpenseLoop(periods, st, expense, tid, F) ==
    IF periods = <<>> THEN st
    ELSE LET period == Head(periods)
             purchaseDate == getFixedPurchaseDateForPeriod(
                                 period, getDayOfMonthFromISODate(expense.purchaseDate))
             ok == CallOk(st.acc, F)
             row == [id |-> FreshId(st.exp), description |-> expense.description,
                     amount |-> expense.amount, purchaseDate |-> purchaseDate,
                     categoryId |-> expense.categoryId, subcategoryId |-> expense.subcategoryId,
                     type |-> "fixed", fixedTemplateId |-> tid]
         IN  addExpenseLoop(Tail(periods),
                            [exp |-> IF ok THEN st.exp \cup {row} ELSE st.exp,
                             acc |-> Issued(st.acc, ok, TRUE)],
                            expense, tid, F)

addExpenseFixed(expense, F, tieHi) ==
    LET ok == CallOk(NoCalls, F)
        acc == Issued(NoCalls, ok, TRUE)
        tid == FreshId(fixed_expense_templates)
        template == [id |-> tid, description |-> expense.description, amount |-> expense.amount,
                     categoryId |-> expense.categoryId, subcategoryId |-> expense.subcategoryId,
                     startDate |-> expense.purchaseDate, endDate |-> NullDate, isActive |-> TRUE]
        st == addExpenseLoop(addExpensePeriods(expense, tieHi),
                             [exp |-> expenses, acc |-> acc], expense, tid, F)
    IN  IF ~ok
        THEN Outcome(expenses, billing_periods, fixed_expense_templates,
                     fixed_expense_exclusions, acc, FALSE, "rejected", "error")
        ELSE Outcome(st.exp, billing_periods, fixed_expense_templates \cup {template},
                     fixed_expense_exclusions, st.acc, TRUE, "resolved", "success")

addExpenseVariable(expense, F) ==
    LET ok == CallOk(NoCalls, F)
        acc == Issued(NoCalls, ok, TRUE)
        row == [id |-> FreshId(expenses), description |-> expense.description,
                amount |-> expense.amount, purchaseDate |-> expense.purchaseDate,
                categoryId |-> expense.categoryId, subcategoryId |-> expense.subcategoryId,
                type |-> expense.type, fixedTemplateId |-> NoTemplate]
    IN  IF ~ok
        THEN Outcome(expenses, billing_periods, fixed_expense_templates,
                     fixed_expense_exclusions, acc, FALSE, "rejected", "none")
        ELSE Outcome(expenses \cup {row}, billing_periods, fixed_expense_templates,
                     fixed_expense_exclusions, acc, TRUE, "resolved", "success")

addExpense(expense, F, tieHi) ==
    IF expense.type = "fixed" THEN addExpenseFixed(expense, F, tieHi)
    ELSE addExpenseVariable(expense, F)

(***************************************************************************)
(* updateExpense                                                           *)
(***************************************************************************)
\* the row `.update(updateData).eq('id', id)` leaves, scope=current
PatchCurrent(e, updates) ==
    [e EXCEPT
        !.description = IF Defined(updates, "description") THEN updates.description ELSE @,
        !.amount = IF Defined(updates, "amount") THEN updates.amount ELSE @,
        !.purchaseDate = IF Defined(updates, "purchaseDate") THEN updates.purchaseDate ELSE @,
        !.categoryId = IF Defined(updates, "categoryId") THEN updates.categoryId ELSE @,
        !.subcategoryId = IF Defined(updates, "subcategoryId") THEN updates.subcategoryId ELSE @,
        !.type = IF Defined(updates, "type") THEN updates.type ELSE @]

\* updates.subcategoryId || null, read back as e.subcategory_id || ''
SubcategoryOrNull(updates) ==
    IF Defined(updates, "subcategoryId") THEN updates.subcategoryId ELSE ""

\* the row updatePayload leaves, scope=future (undefined keys are not sent)
PatchFuture(e, updates, purchaseDate) ==
    [e EXCEPT
        !.description = IF Defined(updates, "description") THEN updates.description ELSE @,
        !.amount = IF Defined(updates, "amount") THEN updates.amount ELSE @,
        !.categoryId = IF Defined(updates, "categoryId") THEN updates.categoryId ELSE @,
        !.subcategoryId = SubcategoryOrNull(updates),
        !.purchaseDate = IF Defined(updates, "purchaseDate") THEN purchaseDate ELSE @]

\* the row templateUpdate leaves
PatchTemplate(t, updates) ==
    [t EXCEPT
        !.description = IF Defined(updates, "description") THEN updates.description ELSE @,
        !.amount = IF Defined(updates, "amount") THEN updates.amount ELSE @,
        !.categoryId = IF Defined(updates, "categoryId") THEN updates.categoryId ELSE @,
        !.subcategoryId = SubcategoryOrNull(updates),
        !.startDate = IF Defined(updates, "purchaseDate") THEN updates.purchaseDate ELSE @]

\* data.billingPeriods.filter(p => new Date(p.startDate) >= new Date(currentPeriod.startDate))
futurePeriods(currentPeriod, tieHi) ==
    SelectSeq(OrderDesc(data.billingPeriods, "start_date", tieHi),
              LAMBDA p : DayNum(p.startDate) >= DayNum(currentPeriod.startDate))

\* for (const period of futurePeriods) { ... update(updatePayload).eq('id', expenseInPeriod.id) }
RECURSIVE updateFutureLoop(_, _, _, _, _, _)
updateFutureLoop(periods, st, currentExpense, updates, F, tieHi) ==
    IF periods = <<>> THEN st
    ELSE LET period == Head(periods)
             found == expenseInPeriod(currentExpense.fixedTemplateId, period, tieHi)
             desiredDayOfMonth ==
                 IF Defined(updates, "purchaseDate")
                 THEN getDayOfMonthFromISODate(updates.purchaseDate)
                 ELSE getDayOfMonthFromISODate(currentExpense.purchaseDate)
             purchaseDate ==
                 IF found.id = currentExpense.id THEN updates.purchaseDate
                 ELSE getFixedPurchaseDateForPeriod(period, desiredDayOfMonth)
             ok == CallOk(st.acc, F)
             next ==
                 IF found = Null THEN st
                 ELSE [exp |-> IF ok
                               THEN {IF e.id = found.id THEN PatchFuture(e, updates, purchaseDate)
                                     ELSE e : e \in st.exp}
                               ELSE st.exp,
                       acc |-> Issued(st.acc, ok, TRUE)]
         IN  updateFutureLoop(Tail(periods), next, currentExpense, updates, F, tieHi)

updateExpenseFuture(currentExpense, updates, F, tieHi) ==
    LET ok == CallOk(NoCalls, F)
        acc == Issued(NoCalls, ok, TRUE)
        tpl == IF ok
               THEN {IF t.id = currentExpense.fixedTemplateId THEN PatchTemplate(t, updates)
                     ELSE t : t \in fixed_expense_templates}
               ELSE fixed_expense_templates
        currentPeriod == getPeriodForExpense(currentExpense, tieHi)
        st == IF currentPeriod = Null THEN [exp |-> expenses, acc |-> acc]
              ELSE updateFutureLoop(futurePeriods(currentPeriod, tieHi),
                                    [exp |-> expenses, acc |-> acc],
                                    currentExpense, updates, F, tieHi)
    IN  Outcome(st.exp, billing_periods, tpl, fixed_expense_exclusions,
                st.acc, TRUE, "resolved", "success")

updateExpenseCurrent(id, updates, F) ==
    LET ok == CallOk(NoCalls, F)
        acc == Issued(NoCalls, ok, TRUE)
    IN  IF ~ok
        THEN Outcome(expenses, billing_periods, fixed_expense_templates,
                     fixed_expense_exclusions, acc, FALSE, "rejected", "none")
        ELSE Outcome({IF e.id = id THEN PatchCurrent(e, updates) ELSE e : e \in expenses},
                     billing_periods, fixed_expense_templates, fixed_expense_exclusions,
                     acc, TRUE, "resolved", "success")

\* the early return of an operation that finds nothing to do
Returned ==
    Outcome(expenses, billing_periods, fixed_expense_templates, fixed_expense_exclusions,
            NoCalls, FALSE, "resolved", "none")

\* data.expenses.find(e => e.id === id)
findExpense(id) ==
    IF id \in Ids(data.expenses) THEN CHOOSE e \in data.expenses : e.id = id ELSE Null

\* an updateExpense that propagates a template instance's edit whatever the scope
updateExpense_ScopeIgnored(id, updates, scope, F, tieHi) ==
    LET currentExpense == findExpense(id)
    IN  IF currentExpense = Null THEN Returned
        ELSE IF currentExpense.fixedTemplateId # NoTemplate
        THEN updateExpenseFuture(currentExpense, updates, F, tieHi)
        ELSE updateExpenseCurrent(id, updates, F)

\* an updateExpense that propagates every scope=future edit, template or not
updateExpense_TemplateIgnored(id, updates, scope, F, tieHi) ==
    LET currentExpense == findExpense(id)
    IN  IF currentExpense = Null THEN Returned
        ELSE IF scope = "future"
        THEN updateExpenseFuture(currentExpense, updates, F, tieHi)
        ELSE updateExpenseCurrent(id, updates, F)

\* an updateExpense without the early return for an id the snapshot does not hold
updateExpense_NotFoundIgnored(id, updates, scope, F, tieHi) ==
    LET currentExpense == findExpense(id)
    IN  IF /\ currentExpense # Null
           /\ currentExpense.fixedTemplateId # NoTemplate
           /\ scope = "future"
        THEN updateExpenseFuture(currentExpense, updates, F, tieHi)
        ELSE updateExpenseCurrent(id, updates, F)

updateExpense(id, updates, scope, F, tieHi) ==
    LET currentExpense == findExpense(id)
    IN  IF currentExpense = Null THEN Returned
        ELSE IF currentExpense.fixedTemplateId # NoTemplate /\ scope = "future"
        THEN updateExpenseFuture(currentExpense, updates, F, tieHi)
        ELSE updateExpenseCurrent(id, updates, F)

(***************************************************************************)
(* deleteExpense                                                           *)
(***************************************************************************)
\* for (const period of futurePeriods) { ... delete().eq('id', expenseInPeriod.id) }
RECURSIVE deleteFutureLoop(_, _, _, _, _)
deleteFutureLoop(periods, st, currentExpense, F, tieHi) ==
    IF periods = <<>> THEN st
    ELSE LET period == Head(periods)
             found == expenseInPeriod(currentExpense.fixedTemplateId, period, tieHi)
             ok == CallOk(st.acc, F)
             next ==
                 IF found = Null THEN st
                 ELSE [exp |-> IF ok THEN {e \in st.exp : e.id # found.id} ELSE st.exp,
                       acc |-> Issued(st.acc, ok, TRUE)]
         IN  deleteFutureLoop(Tail(periods), next, currentExpense, F, tieHi)

\* a retire update that sets end_date and leaves is_active alone
deleteExpenseFuture_EndDateOnly(currentExpense, currentPeriod, F, tieHi) ==
    LET ok == CallOk(NoCalls, F)
        acc == Issued(NoCalls, ok, TRUE)
        end_date == IF currentPeriod # Null THEN currentPeriod.startDate
                    ELSE currentExpense.purchaseDate
        tpl == IF ok
               THEN {IF t.id = currentExpense.fixedTemplateId
                     THEN [t EXCEPT !.endDate = end_date]
                     ELSE t : t \in fixed_expense_templates}
               ELSE fixed_expense_templates
        st == IF currentPeriod = Null THEN [exp |-> expenses, acc |-> acc]
              ELSE deleteFutureLoop(futurePeriods(currentPeriod, tieHi),
                                    [exp |-> expenses, acc |-> acc], currentExpense, F, tieHi)
    IN  Outcome(st.exp, billing_periods, tpl, fixed_expense_exclusions,
                st.acc, TRUE, "resolved", "success")

deleteExpenseFuture(currentExpense, currentPeriod, F, tieHi) ==
    LET ok == CallOk(NoCalls, F)
        acc == Issued(NoCalls, ok, TRUE)
        end_date == IF currentPeriod # Null THEN currentPeriod.startDate
                    ELSE currentExpense.purchaseDate
        tpl == IF ok
               THEN {IF t.id = currentExpense.fixedTemplateId
                     THEN [t EXCEPT !.isActive = FALSE, !.endDate = end_date]
                     ELSE t : t \in fixed_expense_templates}
               ELSE fixed_expense_templates
        st == IF currentPeriod = Null THEN [exp |-> expenses, acc |-> acc]
              ELSE deleteFutureLoop(futurePeriods(currentPeriod, tieHi),
                                    [exp |-> expenses, acc |-> acc], currentExpense, F, tieHi)
    IN  Outcome(st.exp, billing_periods, tpl, fixed_expense_exclusions,
                st.acc, TRUE, "resolved", "success")

\* the exclusion insert of scope=current, rejected by UNIQUE(template_id, billing_period_id)
\* when the row exists, followed by the delete of the one expense row
deleteExpenseCurrent(currentExpense, currentPeriod, F) ==
    LET excluding == currentExpense.fixedTemplateId # NoTemplate /\ currentPeriod # Null
        exclusion == [templateId |-> currentExpense.fixedTemplateId,
                      billingPeriodId |-> currentPeriod.id]
        okIns == CallOk(NoCalls, F) /\ exclusion \notin fixed_expense_exclusions
        acc1 == IF excluding THEN Issued(NoCalls, okIns, TRUE) ELSE NoCalls
        exc == IF excluding /\ okIns THEN fixed_expense_exclusions \cup {exclusion}
               ELSE fixed_expense_exclusions
        okDel == CallOk(acc1, F)
        acc2 == Issued(acc1, okDel, TRUE)
    IN  IF ~okDel
        THEN Outcome(expenses, billing_periods, fixed_expense_templates, exc,
                     acc2, FALSE, "rejected", "error")
        ELSE Outcome({e \in expenses : e.id # currentExpense.id}, billing_periods,
                     fixed_expense_templates, exc, acc2, TRUE, "resolved", "success")

deleteExpense(id, scope, F, tieHi) ==
    LET currentExpense == findExpense(id)
        currentPeriod == getPeriodForExpense(currentExpense, tieHi)
    IN  IF currentExpense = Null THEN Returned
        ELSE IF currentExpense.fixedTemplateId # NoTemplate /\ scope = "future"
        THEN deleteExpenseFuture(currentExpense, currentPeriod, F, tieHi)
        ELSE deleteExpenseCurrent(currentExpense, currentPeriod, F)

(***************************************************************************)
(* Billing periods                                                         *)
(***************************************************************************)
\* inRange of addBillingPeriod
inRange(template, newPeriod) ==
    /\ DayNum(template.startDate) <= DayNum(newPeriod.endDate)
    /\ (template.endDate = NullDate \/ DayNum(template.endDate) >= DayNum(newPeriod.startDate))

\* hasExclusion of addBillingPeriod
hasExclusion(exclusions, template, newPeriod) ==
    \E exc \in exclusions : exc.templateId = template.id /\ exc.billingPeriodId = newPeriod.id

\* a materialization that copies the template's own start date into every new period
materializedDate_Unprojected(template, newPeriod) == template.startDate

\* the purchase_date of the row addBillingPeriod inserts for a template
materializedDate(template, newPeriod) ==
    getFixedPurchaseDateForPeriod(newPeriod, getDayOfMonthFromISODate(template.startDate))

\* for (const template of templates || []) { ... insert ... }
RECURSIVE addBillingPeriodLoop(_, _, _, _, _)
addBillingPeriodLoop(templates, st, exclusions, newPeriod, F) ==
    IF templates = <<>> THEN st
    ELSE LET template == Head(templates)
             purchaseDate == materializedDate(template, newPeriod)
             ok == CallOk(st.acc, F)
             row == [id |-> FreshId(st.exp), description |-> template.description,
                     amount |-> template.amount, purchaseDate |-> purchaseDate,
                     categoryId |-> template.categoryId,
                     subcategoryId |-> template.subcategoryId,
                     type |-> "fixed", fixedTemplateId |-> template.id]
             next ==
                 IF ~inRange(template, newPeriod) \/ hasExclusion(exclusions, template, newPeriod)
                 THEN st
                 ELSE [exp |-> IF ok THEN st.exp \cup {row} ELSE st.exp,
                       acc |-> Issued(st.acc, ok, TRUE)]
         IN  addBillingPeriodLoop(Tail(templates), next, exclusions, newPeriod, F)

addBillingPeriod(period, F) ==
    LET okIns == CallOk(NoCalls, F)
        acc1 == Issued(NoCalls, okIns, TRUE)
        newPeriod == [id |-> FreshId(billing_periods),
                      startDate |-> period.startDate, endDate |-> period.endDate]
        okTpl == CallOk(acc1, F)
        acc2 == Issued(acc1, okTpl, FALSE)
        templates == IF okTpl THEN {t \in fixed_expense_templates : t.isActive} ELSE {}
        okExc == CallOk(acc2, F)
        acc3 == Issued(acc2, okExc, FALSE)
        exclusions == IF okExc THEN fixed_expense_exclusions ELSE {}
        st == addBillingPeriodLoop(OrderDesc(templates, "id", TRUE),
                                   [exp |-> expenses, acc |-> acc3], exclusions, newPeriod, F)
    IN  IF ~okIns
        THEN Outcome(expenses, billing_periods, fixed_expense_templates,
                     fixed_expense_exclusions, acc1, FALSE, "rejected", "error")
        ELSE Outcome(st.exp, billing_periods \cup {newPeriod}, fixed_expense_templates,
                     fixed_expense_exclusions, st.acc, TRUE, "resolved", "success")

updateBillingPeriod(id, updates, F) ==
    LET ok == CallOk(NoCalls, F)
        acc == Issued(NoCalls, ok, TRUE)
    IN  IF ~ok
        THEN Outcome(expenses, billing_periods, fixed_expense_templates,
                     fixed_expense_exclusions, acc, FALSE, "rejected", "none")
        ELSE Outcome(expenses,
                     {IF p.id = id
                      THEN [p EXCEPT !.startDate = updates.startDate, !.endDate = updates.endDate]
                      ELSE p : p \in billing_periods},
                     fixed_expense_templates, fixed_expense_exclusions,
                     acc, TRUE, "resolved", "none")

\* a deleteBillingPeriod whose delete takes the expenses dated inside the period with it
deleteBillingPeriod_CascadesExpenses(id, F) ==
    LET okExc == CallOk(NoCalls, F)
        acc1 == Issued(NoCalls, okExc, TRUE)
        exc == IF okExc THEN {x \in fixed_expense_exclusions : x.billingPeriodId # id}
               ELSE fixed_expense_exclusions
        okDel == CallOk(acc1, F)
        acc2 == Issued(acc1, okDel, TRUE)
    IN  IF ~okDel
        THEN Outcome(expenses, billing_periods, fixed_expense_templates, exc,
                     acc2, FALSE, "rejected", "none")
        ELSE Outcome({e \in expenses :
                        \A p \in billing_periods : p.id = id => ~InPeriod(e.purchaseDate, p)},
                     {p \in billing_periods : p.id # id}, fixed_expense_templates,
                     {x \in fixed_expense_exclusions : x.billingPeriodId # id},
                     acc2, TRUE, "resolved", "none")

\* the explicit delete of the exclusions, then the delete of the period, which the
\* schema cascades to fixed_expense_exclusions (ON DELETE CASCADE)
deleteBillingPeriod(id, F) ==
    LET okExc == CallOk(NoCalls, F)
        acc1 == Issued(NoCalls, okExc, TRUE)
        exc == IF okExc THEN {x \in fixed_expense_exclusions : x.billingPeriodId # id}
               ELSE fixed_expense_exclusions
        okDel == CallOk(acc1, F)
        acc2 == Issued(acc1, okDel, TRUE)
    IN  IF ~okDel
        THEN Outcome(expenses, billing_periods, fixed_expense_templates, exc,
                     acc2, FALSE, "rejected", "none")
        ELSE Outcome(expenses, {p \in billing_periods : p.id # id}, fixed_expense_templates,
                     {x \in fixed_expense_exclusions : x.billingPeriodId # id},
                     acc2, TRUE, "resolved", "none")

(***************************************************************************)
(* Actions: one call of one operation, run to completion on the snapshot.  *)
(***************************************************************************)
NoUpdates ==
    [fields |-> {}, description |-> "", amount |-> 0, purchaseDate |-> NullDate,
     categoryId |-> "", subcategoryId |-> "", type |-> ""]

\* the argument of addExpense, as the record of the call keeps it
Given(expense) ==
    [fields |-> {"description", "amount", "purchaseDate", "categoryId", "subcategoryId", "type"},
     description |-> expense.description, amount |-> expense.amount,
     purchaseDate |-> expense.purchaseDate, categoryId |-> expense.categoryId,
     subcategoryId |-> expense.subcategoryId, type |-> expense.type]

\* the failure patterns of an operation that issues n store calls when none fails:
\* no call fails, or one call does
FailSets(n) == {{}} \cup {{k} : k \in 1..n}

\* the orders the store may return equal sort keys in: a choice only where keys tie
TieChoices ==
    IF \/ \E p, q \in data.billingPeriods : p # q /\ p.startDate = q.startDate
       \/ \E e, f \in data.expenses : e # f /\ e.purchaseDate = f.purchaseDate
    THEN BOOLEAN ELSE {TRUE}

\* the tables after the operation, the snapshot after its trailing fetchData (skipped when
\* the operation threw or returned early), and what the caller observed
Commit(R, op, id, scope, updates, period) ==
    /\ expenses' = R.exp
    /\ billing_periods' = R.per
    /\ fixed_expense_templates' = R.tpl
    /\ fixed_expense_exclusions' = R.exc
    /\ data' = IF R.fetched THEN fetchData(R.exp, R.per) ELSE data
    /\ ncalls' = ncalls + 1
    /\ last' = [op |-> op, id |-> id, scope |-> scope, updates |-> updates, period |-> period,
                result |-> R.result, toast |-> R.toast,
                failed |-> R.acc.failed, after |-> R.acc.after]

\* the period the target expense of a scoped call belongs to (0 when none)
OwningPeriodId(id, tieHi) ==
    IF findExpense(id) = Null THEN 0 ELSE getPeriodForExpense(findExpense(id), tieHi).id

\* a further call may be made
CanCall == ncalls < MaxCalls

\* the ids a caller may pass: those of the snapshot, and one that names no row
ExpenseIds == Ids(data.expenses) \cup {FreshId(data.expenses)}
PeriodIds == Ids(data.billingPeriods) \cup {FreshId(data.billingPeriods)}

AddExpense ==
    /\ CanCall
    /\ \E expense \in NewExpenseForms, tieHi \in TieChoices :
      \E F \in FailSets(addExpense(expense, {}, tieHi).acc.n) :
        \E R \in {addExpense(expense, F, tieHi)} :
          /\ Commit(R, "addExpense",
                    IF expense.type = "fixed" THEN FreshId(fixed_expense_templates) ELSE 0,
                    expense.type, Given(expense), 0)
          /\ UNCHANGED <<removedCurrent, retired, edited, projIn, projOut, goalState, goalIn, goalOut, lookIn, lookOut, sessions>>

UpdateExpense ==
    /\ CanCall
    /\ \E id \in ExpenseIds, updates \in UpdateForms, scope \in {"current", "future"},
       tieHi \in TieChoices :
      \E F \in FailSets(updateExpense(id, updates, scope, {}, tieHi).acc.n) :
        \E R \in {updateExpense(id, updates, scope, F, tieHi)} :
          /\ Commit(R, "updateExpense", id, scope, updates, OwningPeriodId(id, tieHi))
          /\ edited' =
               LET e == findExpense(id)
               IN  IF /\ e # Null
                      /\ e.fixedTemplateId # NoTemplate
                      /\ scope = "future"
                      /\ R.result = "resolved"
                   THEN {h \in edited : h.template # e.fixedTemplateId}
                        \cup {[template |-> e.fixedTemplateId, updates |-> updates]}
                   ELSE edited
          /\ UNCHANGED <<removedCurrent, retired, projIn, projOut, goalState, goalIn, goalOut, lookIn, lookOut, sessions>>

DeleteExpense ==
    /\ CanCall
    /\ \E id \in ExpenseIds, scope \in {"current", "future"}, tieHi \in TieChoices :
      \E F \in FailSets(deleteExpense(id, scope, {}, tieHi).acc.n) :
        \E R \in {deleteExpense(id, scope, F, tieHi)} :
          LET e == findExpense(id)
              P == getPeriodForExpense(e, tieHi)
          IN  /\ Commit(R, "deleteExpense", id, scope, NoUpdates, OwningPeriodId(id, tieHi))
              /\ removedCurrent' =
                   IF /\ e # Null
                      /\ e.fixedTemplateId # NoTemplate
                      /\ scope = "current"
                      /\ P # Null
                      /\ id \notin Ids(R.exp)
                   THEN removedCurrent \cup {[templateId |-> e.fixedTemplateId,
                                              startDate |-> P.startDate, endDate |-> P.endDate]}
                   ELSE removedCurrent
              /\ retired' =
                   IF /\ e # Null
                      /\ e.fixedTemplateId # NoTemplate
                      /\ scope = "future"
                      /\ R.result = "resolved"
                   THEN retired \cup {e.fixedTemplateId}
                   ELSE retired
              /\ UNCHANGED <<edited, projIn, projOut, goalState, goalIn, goalOut, lookIn, lookOut, sessions>>

\* Omit<BillingPeriod, 'id'> values with startDate < endDate
PeriodForms ==
    {p \in [startDate : PeriodDates, endDate : PeriodDates] : DayNum(p.startDate) < DayNum(p.endDate)}

AddBillingPeriod ==
    /\ CanCall
    /\ \E period \in PeriodForms :
      \E F \in FailSets(addBillingPeriod(period, {}).acc.n) :
        \E R \in {addBillingPeriod(period, F)} :
          /\ Commit(R, "addBillingPeriod", FreshId(billing_periods), "", NoUpdates, 0)
          /\ UNCHANGED <<removedCurrent, retired, edited, projIn, projOut, goalState, goalIn, goalOut, lookIn, lookOut, sessions>>

UpdateBillingPeriod ==
    /\ CanCall
    /\ \E id \in PeriodIds, updates \in PeriodForms, F \in FailSets(1) :
      \E R \in {updateBillingPeriod(id, updates, F)} :
        /\ Commit(R, "updateBillingPeriod", id, "", NoUpdates, 0)
        /\ UNCHANGED <<removedCurrent, retired, edited, projIn, projOut, goalState, goalIn, goalOut, lookIn, lookOut, sessions>>

DeleteBillingPeriod ==
    /\ CanCall
    /\ \E id \in PeriodIds, F \in FailSets(2) :
      \E R \in {deleteBillingPeriod(id, F)} :
        /\ Commit(R, "deleteBillingPeriod", id, "", NoUpdates, 0)
        /\ UNCHANGED <<removedCurrent, retired, edited, projIn, projOut, goalState, goalIn, goalOut, lookIn, lookOut, sessions>>

NoCall ==
    [op |-> "none", id |-> 0, scope |-> "", updates |-> NoUpdates, period |-> 0,
     result |-> "resolved", toast |-> "none", failed |-> FALSE, after |-> FALSE]

\* no operation is under way call by call
NoSessions ==
    [a |-> [pc |-> "idle", op |-> "none", target |-> Null, period |-> Null,
            template |-> NoTemplate, plan |-> <<>>],
     b |-> [pc |-> "idle", newPeriod |-> Null, templates |-> {}, exclusions |-> {},
            todo |-> <<>>]]

\* no getGoalForCategory call and no lookup is under way
NoGoalQuery == [goals |-> {}, goalOverrides |-> {}, categoryId |-> "", billingPeriodId |-> 0]
NoResult == [done |-> FALSE]

NoProjection == [period |-> [id |-> 0, startDate |-> NullDate, endDate |-> NullDate], day |-> 0]

Jan == [startDate |-> <<2026, 1, 6>>, endDate |-> <<2026, 2, 6>>]
Feb == [startDate |-> <<2026, 2, 6>>, endDate |-> <<2026, 3, 6>>]
JanFeb == [startDate |-> <<2026, 1, 6>>, endDate |-> <<2026, 3, 6>>]

WithId(period, id) == [id |-> id, startDate |-> period.startDate, endDate |-> period.endDate]

\* the billing periods a run starts with: what addBillingPeriod calls on an account
\* without fixed expenses leave
InitialPeriods ==
    {{}, {WithId(Jan, 1)}, {WithId(Jan, 1), WithId(Feb, 2)}, {WithId(Jan, 1), WithId(JanFeb, 2)}}

\* a fetched account that holds billing periods only
Init ==
    /\ expenses = {}
    /\ billing_periods \in InitialPeriods
    /\ fixed_expense_templates = {}
    /\ fixed_expense_exclusions = {}
    /\ data = fetchData({}, billing_periods)
    /\ last = NoCall
    /\ ncalls = 0
    /\ removedCurrent = {}
    /\ retired = {}
    /\ edited = {}
    /\ projIn = NoProjection
    /\ projOut = NullDate
    /\ goalIn = NoGoalQuery
    /\ goalOut = NoResult
    /\ lookIn = NullDate
    /\ lookOut = NoResult
    /\ sessions = NoSessions
    /\ category_goals = {}
    /\ category_goal_overrides = {}
    /\ goalData = fetchGoals({}, {})

Next ==
    \/ AddExpense
    \/ UpdateExpense
    \/ DeleteExpense
    \/ AddBillingPeriod
    \/ UpdateBillingPeriod
    \/ DeleteBillingPeriod

Spec == Init /\ [][Next]_vars

\* runs made only of addExpense and addBillingPeriod calls
NextMat ==
    \/ AddExpense
    \/ AddBillingPeriod

SpecMat == Init /\ [][NextMat]_vars

(***************************************************************************)
(* An updateExpense with scope=future that ends after its first k store    *)
(* calls: the calls after the k-th are never issued, so the store changes  *)
(* as in a run in which they change nothing.  The operation reads only the *)
(* snapshot, so the calls it would issue do not depend on earlier ones.    *)
(***************************************************************************)
updateExpenseStopped(id, updates, k, tieHi) ==
    LET currentExpense == findExpense(id)
        n == updateExpenseFuture(currentExpense, updates, {}, tieHi).acc.n
        R == updateExpenseFuture(currentExpense, updates, (k + 1)..n, tieHi)
    IN  Outcome(R.exp, R.per, R.tpl, R.exc, [n |-> k, failed |-> FALSE, after |-> FALSE],
                FALSE, "stopped", "none")

\* the session that follows loads the account anew
UpdateExpenseStopped ==
    /\ CanCall
    /\ \E id \in Ids(data.expenses), updates \in UpdateForms, tieHi \in TieChoices :
         /\ findExpense(id).fixedTemplateId # NoTemplate
         /\ \E k \in 1..(updateExpenseFuture(findExpense(id), updates, {}, tieHi).acc.n - 1) :
              \E R \in {updateExpenseStopped(id, updates, k, tieHi)} :
                /\ expenses' = R.exp
                /\ billing_periods' = R.per
                /\ fixed_expense_templates' = R.tpl
                /\ fixed_expense_exclusions' = R.exc
                /\ data' = fetchData(R.exp, R.per)
                /\ ncalls' = ncalls + 1
                /\ last' = [op |-> "updateExpense", id |-> id, scope |-> "future",
                            updates |-> updates, period |-> OwningPeriodId(id, tieHi),
                            result |-> R.result, toast |-> R.toast,
                            failed |-> FALSE, after |-> FALSE]
    /\ UNCHANGED <<removedCurrent, retired, edited, projIn, projOut, goalState, goalIn, goalOut, lookIn, lookOut, sessions>>

NextStop ==
    \/ AddExpense
    \/ AddBillingPeriod
    \/ UpdateExpenseStopped

SpecStop == Init /\ [][NextStop]_vars

(***************************************************************************)
(* Two sessions on one account, one store call per step, no call failing.  *)
(* Session a runs deleteExpense with scope=future or addExpense with       *)
(* type=fixed on its snapshot `data`, which is fresh when the operation    *)
(* starts; session b runs addBillingPeriod, which reads the store only.    *)
(* An operation on the snapshot reads nothing back from the store except   *)
(* the id of the template it inserted, so the calls it will issue are      *)
(* known when it starts: sessions.a.plan.                                  *)
(***************************************************************************)
StoreCall(call, id, date) == [call |-> call, id |-> id, date |-> date]

\* the deletes of `for (const period of futurePeriods)`, in the order they are issued
RECURSIVE deleteFuturePlan(_, _, _)
deleteFuturePlan(periods, currentExpense, tieHi) ==
    IF periods = <<>> THEN <<>>
    ELSE LET found == expenseInPeriod(currentExpense.fixedTemplateId, Head(periods), tieHi)
         IN  (IF found = Null THEN <<>> ELSE <<StoreCall("delete", found.id, NullDate)>>)
             \o deleteFuturePlan(Tail(periods), currentExpense, tieHi)

\* the store calls of deleteExpense(id, 'future') on a template instance
deleteExpensePlan(currentExpense, currentPeriod, tieHi) ==
    <<StoreCall("retire", currentExpense.fixedTemplateId,
                IF currentPeriod # Null THEN currentPeriod.startDate
                ELSE currentExpense.purchaseDate)>>
    \o (IF currentPeriod = Null THEN <<>>
        ELSE deleteFuturePlan(futurePeriods(currentPeriod, tieHi), currentExpense, tieHi))

\* the store calls of addExpense({type: 'fixed', ...})
addExpensePlan(expense, tieHi) ==
    LET periods == addExpensePeriods(expense, tieHi)
    IN  <<StoreCall("insertTemplate", 0, expense.purchaseDate)>>
        \o [i \in 1..Len(periods) |->
              StoreCall("insertExpense", 0,
                        getFixedPurchaseDateForPeriod(
                            periods[i], getDayOfMonthFromISODate(expense.purchaseDate)))]

\* session a's snapshot follows the store until its operation starts
SnapshotAfter(exp, per) == IF sessions.a.pc = "idle" THEN fetchData(exp, per) ELSE data

StartDeleteExpense ==
    /\ CanCall
    /\ sessions.a.pc = "idle"
    /\ \E id \in Ids(data.expenses), tieHi \in TieChoices :
         LET currentExpense == findExpense(id)
             currentPeriod == getPeriodForExpense(currentExpense, tieHi)
         IN  /\ currentExpense.fixedTemplateId # NoTemplate
             /\ sessions' = [sessions EXCEPT !.a =
                    [pc |-> "run", op |-> "deleteExpense", target |-> currentExpense,
                     period |-> currentPeriod, template |-> currentExpense.fixedTemplateId,
                     plan |-> deleteExpensePlan(currentExpense, currentPeriod, tieHi)]]
    /\ ncalls' = ncalls + 1
    /\ UNCHANGED <<expenses, billing_periods, fixed_expense_templates, fixed_expense_exclusions,
                   data, last, removedCurrent, retired, edited, projIn, projOut,
                   goalState, goalIn, goalOut, lookIn, lookOut>>

StartAddExpense ==
    /\ CanCall
    /\ sessions.a.pc = "idle"
    /\ \E expense \in NewExpenseForms, tieHi \in TieChoices :
         /\ expense.type = "fixed"
         /\ sessions' = [sessions EXCEPT !.a =
                [pc |-> "run", op |-> "addExpense", target |-> expense, period |-> Null,
                 template |-> NoTemplate, plan |-> addExpensePlan(expense, tieHi)]]
    /\ ncalls' = ncalls + 1
    /\ UNCHANGED <<expenses, billing_periods, fixed_expense_templates, fixed_expense_exclusions,
                   data, last, removedCurrent, retired, edited, projIn, projOut,
                   goalState, goalIn, goalOut, lookIn, lookOut>>

\* the next store call of session a's operation
CallA ==
    /\ sessions.a.pc = "run"
    /\ sessions.a.plan # <<>>
    /\ LET c == Head(sessions.a.plan)
           expense == sessions.a.target
           tid == FreshId(fixed_expense_templates)
       IN  /\ fixed_expense_templates' =
                CASE c.call = "retire" ->
                       {IF t.id = c.id THEN [t EXCEPT !.isActive = FALSE, !.endDate = c.date]
                        ELSE t : t \in fixed_expense_templates}
                  [] c.call = "insertTemplate" ->
                       fixed_expense_templates \cup
                       {[id |-> tid, description |-> expense.description,
                         amount |-> expense.amount, categoryId |-> expense.categoryId,
                         subcategoryId |-> expense.subcategoryId,
                         startDate |-> expense.purchaseDate, endDate |-> NullDate,
                         isActive |-> TRUE]}
                  [] OTHER -> fixed_expense_templates
           /\ expenses' =
                CASE c.call = "delete" -> {e \in expenses : e.id # c.id}
                  [] c.call = "insertExpense" ->
                       expenses \cup
                       {[id |-> FreshId(expenses), description |-> expense.description,
                         amount |-> expense.amount, purchaseDate |-> c.date,
                         categoryId |-> expense.categoryId,
                         subcategoryId |-> expense.subcategoryId,
                         type |-> "fixed", fixedTemplateId |-> sessions.a.template]}
                  [] OTHER -> expenses
           /\ sessions' = [sessions EXCEPT
                             !.a.plan = Tail(@),
                             !.a.template = IF c.call = "insertTemplate" THEN tid ELSE @]
    /\ UNCHANGED <<billing_periods, fixed_expense_exclusions, data, last, ncalls,
                   removedCurrent, retired, edited, projIn, projOut, goalState, goalIn, goalOut, lookIn, lookOut>>

\* await fetchData() and the success toast of session a's operation
FinishA ==
    /\ sessions.a.pc = "run"
    /\ sessions.a.plan = <<>>
    /\ sessions' = [sessions EXCEPT !.a.pc = "done"]
    /\ data' = fetchData(expenses, billing_periods)
    /\ UNCHANGED <<expenses, billing_periods, fixed_expense_templates, fixed_expense_exclusions,
                   last, ncalls, removedCurrent, retired, edited, projIn, projOut,
                   goalState, goalIn, goalOut, lookIn, lookOut>>

\* addBillingPeriod is called and its insert into billing_periods takes effect
StartAddBillingPeriod ==
    /\ CanCall
    /\ sessions.b.pc = "idle"
    /\ \E period \in PeriodForms :
         LET newPeriod == [id |-> FreshId(billing_periods),
                           startDate |-> period.startDate, endDate |-> period.endDate]
         IN  /\ billing_periods' = billing_periods \cup {newPeriod}
             /\ sessions' = [sessions EXCEPT !.b.pc = "templates", !.b.newPeriod = newPeriod]
             /\ data' = SnapshotAfter(expenses, billing_periods')
    /\ ncalls' = ncalls + 1
    /\ UNCHANGED <<expenses, fixed_expense_templates, fixed_expense_exclusions,
                   last, removedCurrent, retired, edited, projIn, projOut,
                   goalState, goalIn, goalOut, lookIn, lookOut>>

\* the select of the active templates
SelectTemplatesB ==
    /\ sessions.b.pc = "templates"
    /\ sessions' = [sessions EXCEPT
                      !.b.pc = "exclusions",
                      !.b.templates = {t \in fixed_expense_templates : t.isActive}]
    /\ UNCHANGED <<expenses, billing_periods, fixed_expense_templates, fixed_expense_exclusions,
                   data, last, ncalls, removedCurrent, retired, edited, projIn, projOut,
                   goalState, goalIn, goalOut, lookIn, lookOut>>

\* the select of the exclusions; the templates the loop will insert a row for
SelectExclusionsB ==
    /\ sessions.b.pc = "exclusions"
    /\ sessions' = [sessions EXCEPT
                      !.b.pc = "loop",
                      !.b.exclusions = fixed_expense_exclusions,
                      !.b.todo = SelectSeq(OrderDesc(sessions.b.templates, "id", TRUE),
                                           LAMBDA template :
                                               /\ inRange(template, sessions.b.newPeriod)
                                               /\ ~hasExclusion(fixed_expense_exclusions,
                                                                template, sessions.b.newPeriod))]
    /\ UNCHANGED <<expenses, billing_periods, fixed_expense_templates, fixed_expense_exclusions,
                   data, last, ncalls, removedCurrent, retired, edited, projIn, projOut,
                   goalState, goalIn, goalOut, lookIn, lookOut>>

\* one insert into expenses of addBillingPeriod's loop
InsertB ==
    /\ sessions.b.pc = "loop"
    /\ sessions.b.todo # <<>>
    /\ LET template == Head(sessions.b.todo)
       IN  expenses' = expenses \cup
               {[id |-> FreshId(expenses), description |-> template.description,
                 amount |-> template.amount,
                 purchaseDate |-> materializedDate(template, sessions.b.newPeriod),
                 categoryId |-> template.categoryId, subcategoryId |-> template.subcategoryId,
                 type |-> "fixed", fixedTemplateId |-> template.id]}
    /\ sessions' = [sessions EXCEPT !.b.todo = Tail(@)]
    /\ data' = SnapshotAfter(expenses', billing_periods)
    /\ UNCHANGED <<billing_periods, fixed_expense_templates, fixed_expense_exclusions,
                   last, ncalls, removedCurrent, retired, edited, projIn, projOut,
                   goalState, goalIn, goalOut, lookIn, lookOut>>

\* await fetchData() and the success toast of addBillingPeriod
FinishB ==
    /\ sessions.b.pc = "loop"
    /\ sessions.b.todo = <<>>
    /\ sessions' = [sessions EXCEPT !.b.pc = "done"]
    /\ UNCHANGED <<expenses, billing_periods, fixed_expense_templates, fixed_expense_exclusions,
                   data, last, ncalls, removedCurrent, retired, edited, projIn, projOut,
                   goalState, goalIn, goalOut, lookIn, lookOut>>

\* whole operations run before either session starts one call by call
Earlier ==
    /\ sessions = NoSessions
    /\ \/ AddExpense
       \/ AddBillingPeriod

NextConc ==
    \/ Earlier
    \/ StartDeleteExpense
    \/ StartAddExpense
    \/ CallA
    \/ FinishA
    \/ StartAddBillingPeriod
    \/ SelectTemplatesB
    \/ SelectExclusionsB
    \/ InsertB
    \/ FinishB

SpecConc == Init /\ [][NextConc]_vars

(***************************************************************************)
(* The day-of-month projector on its own: Init draws a period and a        *)
(* desired day, Project applies getFixedPurchaseDateForPeriod.             *)
(***************************************************************************)
MaxStartOffset == 75
MaxPeriodLength == 40

\* the first period start drawn: the starts run over a year's end and a leap February
ProjBase == <<2027, 12, 20>>

InitProj ==
    /\ expenses = {}
    /\ billing_periods = {}
    /\ fixed_expense_templates = {}
    /\ fixed_expense_exclusions = {}
    /\ data = fetchData({}, {})
    /\ last = NoCall
    /\ ncalls = 0
    /\ removedCurrent = {}
    /\ retired = {}
    /\ edited = {}
    /\ \E i \in 0..MaxStartOffset, n \in 1..MaxPeriodLength, d \in 1..31 :
         projIn = [period |-> [id |-> 1, startDate |-> addDays(ProjBase, i),
                               endDate |-> addDays(ProjBase, i + n)],
                   day |-> d]
    /\ projOut = NullDate
    /\ goalIn = NoGoalQuery
    /\ goalOut = NoResult
    /\ lookIn = NullDate
    /\ lookOut = NoResult
    /\ sessions = NoSessions
    /\ category_goals = {}
    /\ category_goal_overrides = {}
    /\ goalData = fetchGoals({}, {})

Project ==
    /\ projIn # NoProjection
    /\ projOut = NullDate
    /\ projOut' = getFixedPurchaseDateForPeriod(projIn.period, projIn.day)
    /\ UNCHANGED <<expenses, billing_periods, fixed_expense_templates, fixed_expense_exclusions,
                   data, last, ncalls, removedCurrent, retired, edited, projIn,
                   goalState, goalIn, goalOut, lookIn, lookOut, sessions>>

NextProj == Project

SpecProj == InitProj /\ [][NextProj]_vars

(***************************************************************************)
(* Category goals: getGoalForCategory on its own.  Init draws the goal     *)
(* tables (one row per key, as the upserts keep them) and a query.         *)
(***************************************************************************)
\* a getGoalForCategory that tests the override's amount instead of the override
getGoalForCategory_ZeroFallsBack(goals, goalOverrides, categoryId, billingPeriodId) ==
    LET overrides == {o \in goalOverrides :
                        /\ o.categoryId = categoryId
                        /\ o.billingPeriodId = billingPeriodId
                        /\ o.amount # 0}
        defaults == {g \in goals : g.categoryId = categoryId}
    IN  IF overrides # {} THEN (CHOOSE o \in overrides : TRUE).amount
        ELSE IF defaults # {} THEN (CHOOSE g \in defaults : TRUE).amount
        ELSE 0

\* getGoalForCategory over data.goals and data.goalOverrides
getGoalForCategory(goals, goalOverrides, categoryId, billingPeriodId) ==
    LET overrides == {o \in goalOverrides :
                        o.categoryId = categoryId /\ o.billingPeriodId = billingPeriodId}
        defaults == {g \in goals : g.categoryId = categoryId}
    IN  IF overrides # {} THEN (CHOOSE o \in overrides : TRUE).amount
        ELSE IF defaults # {} THEN (CHOOSE g \in defaults : TRUE).amount
        ELSE 0

\* the categories, periods and amounts the goal tables are drawn from
GoalCategories == {"c1", "c2"}
GoalPeriods == {1, 2}
GoalAmounts == {0, 300, 500}

\* category_goals holds one row per category
OnePerCategory(goals) ==
    \A g, h \in goals : g.categoryId = h.categoryId => g = h

\* category_goal_overrides holds one row per (category, billing period)
OnePerCategoryAndPeriod(goalOverrides) ==
    \A o, q \in goalOverrides :
        (o.categoryId = q.categoryId /\ o.billingPeriodId = q.billingPeriodId) => o = q

InitGoal ==
    /\ expenses = {}
    /\ billing_periods = {}
    /\ fixed_expense_templates = {}
    /\ fixed_expense_exclusions = {}
    /\ data = fetchData({}, {})
    /\ last = NoCall
    /\ ncalls = 0
    /\ removedCurrent = {}
    /\ retired = {}
    /\ edited = {}
    /\ projIn = NoProjection
    /\ projOut = NullDate
    /\ \E goals \in SUBSET [categoryId : GoalCategories, amount : GoalAmounts],
          goalOverrides \in SUBSET [categoryId : GoalCategories, billingPeriodId : GoalPeriods,
                                    amount : {0, 300}],
          c \in GoalCategories, p \in GoalPeriods :
         /\ OnePerCategory(goals)
         /\ OnePerCategoryAndPeriod(goalOverrides)
         /\ goalIn = [goals |-> goals, goalOverrides |-> goalOverrides,
                      categoryId |-> c, billingPeriodId |-> p]
    /\ goalOut = NoResult
    /\ lookIn = NullDate
    /\ lookOut = NoResult
    /\ sessions = NoSessions
    /\ category_goals = {}
    /\ category_goal_overrides = {}
    /\ goalData = fetchGoals({}, {})

GetGoal ==
    /\ goalIn # NoGoalQuery
    /\ ~goalOut.done
    /\ goalOut' = [done |-> TRUE,
                   amount |-> getGoalForCategory(goalIn.goals, goalIn.goalOverrides,
                                                 goalIn.categoryId, goalIn.billingPeriodId)]
    /\ UNCHANGED <<expenses, billing_periods, fixed_expense_templates, fixed_expense_exclusions,
                   data, last, ncalls, removedCurrent, retired, edited, projIn, projOut,
                   goalState, goalIn, lookIn, lookOut, sessions>>

NextGoal == GetGoal

SpecGoal == InitGoal /\ [][NextGoal]_vars

(***************************************************************************)
(* The goal operations.  Each issues one store call, throws when it fails  *)
(* and otherwise ends with fetchData, whose two goal selects fall back to  *)
(* an empty list when they fail.                                           *)
(***************************************************************************)
\* the numbers the callers pass as `amount`: parseFloat of what was typed
EnteredAmounts == {-10, 0, 40, 100, 150}

\* upsert(..., { onConflict: 'user_id, category_id' })
upsertGoal(goals, categoryId, amount) ==
    {g \in goals : g.categoryId # categoryId}
    \cup {[categoryId |-> categoryId, amount |-> amount]}

\* upsert(upsertData, { onConflict: 'user_id, category_id' }), one row per category
upsertGoals(goals, batch) ==
    {g \in goals : \A b \in batch : b.categoryId # g.categoryId} \cup batch

\* upsert(..., { onConflict: 'user_id, category_id, billing_period_id' })
upsertGoalOverride(goalOverrides, categoryId, billingPeriodId, amount) ==
    {o \in goalOverrides : ~(o.categoryId = categoryId /\ o.billingPeriodId = billingPeriodId)}
    \cup {[categoryId |-> categoryId, billingPeriodId |-> billingPeriodId, amount |-> amount]}

\* the store call succeeded: the tables change and fetchData reloads the snapshot
GoalsSaved(goals, goalOverrides) ==
    /\ category_goals' = goals
    /\ category_goal_overrides' = goalOverrides
    /\ \E okGoals, okOverrides \in BOOLEAN :
         goalData' = fetchGoals(IF okGoals THEN goals ELSE {},
                                IF okOverrides THEN goalOverrides ELSE {})

\* the store call failed: `throw error`
GoalsRejected == UNCHANGED goalState

GoalFrame ==
    /\ ncalls' = ncalls + 1
    /\ UNCHANGED <<expenses, billing_periods, fixed_expense_templates, fixed_expense_exclusions,
                   data, last, removedCurrent, retired, edited, projIn, projOut,
                   goalIn, goalOut, lookIn, lookOut, sessions>>

SetCategoryGoal ==
    /\ CanCall
    /\ \E categoryId \in GoalCategories, amount \in EnteredAmounts :
         \/ GoalsSaved(upsertGoal(category_goals, categoryId, amount), category_goal_overrides)
         \/ GoalsRejected
    /\ GoalFrame

SetCategoryGoals ==
    /\ CanCall
    /\ \E batch \in SUBSET [categoryId : GoalCategories, amount : EnteredAmounts] :
         /\ OnePerCategory(batch)
         /\ \/ GoalsSaved(upsertGoals(category_goals, batch), category_goal_overrides)
            \/ GoalsRejected
    /\ GoalFrame

SetCategoryGoalOverride ==
    /\ CanCall
    /\ \E categoryId \in GoalCategories, billingPeriodId \in Ids(data.billingPeriods),
          amount \in EnteredAmounts :
         \/ GoalsSaved(category_goals,
                       upsertGoalOverride(category_goal_overrides, categoryId,
                                          billingPeriodId, amount))
         \/ GoalsRejected
    /\ GoalFrame

DeleteCategoryGoalOverride ==
    /\ CanCall
    /\ \E categoryId \in GoalCategories, billingPeriodId \in Ids(data.billingPeriods) :
         \/ GoalsSaved(category_goals,
                       {o \in category_goal_overrides :
                          ~(o.categoryId = categoryId /\ o.billingPeriodId = billingPeriodId)})
         \/ GoalsRejected
    /\ GoalFrame

NextGoalOps ==
    \/ SetCategoryGoal
    \/ SetCategoryGoals
    \/ SetCategoryGoalOverride
    \/ DeleteCategoryGoalOverride

SpecGoalOps == Init /\ [][NextGoalOps]_vars

(***************************************************************************)
(* The period lookup on its own: Init draws one billing period and a date, *)
(* Lookup applies getBillingPeriodForDate and getPeriodForExpense.         *)
(***************************************************************************)
MaxLookStart == 6
MaxLookLength == 6
MaxLookDate == 14

\* the first date drawn: the dates run over a month's end
LookBase == <<2026, 1, 27>>

InitLook ==
    /\ expenses = {}
    /\ \E i \in 1..MaxLookStart, n \in 1..MaxLookLength :
         billing_periods = {[id |-> 1, startDate |-> addDays(LookBase, i),
                             endDate |-> addDays(LookBase, i + n)]}
    /\ fixed_expense_templates = {}
    /\ fixed_expense_exclusions = {}
    /\ data = fetchData({}, billing_periods)
    /\ last = NoCall
    /\ ncalls = 0
    /\ removedCurrent = {}
    /\ retired = {}
    /\ edited = {}
    /\ projIn = NoProjection
    /\ projOut = NullDate
    /\ goalIn = NoGoalQuery
    /\ goalOut = NoResult
    /\ \E j \in 0..MaxLookDate : lookIn = addDays(LookBase, j)
    /\ lookOut = NoResult
    /\ sessions = NoSessions
    /\ category_goals = {}
    /\ category_goal_overrides = {}
    /\ goalData = fetchGoals({}, {})

Lookup ==
    /\ lookIn # NullDate
    /\ ~lookOut.done
    /\ \E tieHi \in BOOLEAN :
         lookOut' = [done |-> TRUE,
                     byDate |-> getBillingPeriodForDate(lookIn, tieHi),
                     byExpense |-> getPeriodForExpense([purchaseDate |-> lookIn], tieHi)]
    /\ UNCHANGED <<expenses, billing_periods, fixed_expense_templates, fixed_expense_exclusions,
                   data, last, ncalls, removedCurrent, retired, edited, projIn, projOut,
                   goalState, goalIn, goalOut, lookIn, sessions>>

NextLook == Lookup

SpecLook == InitLook /\ [][NextLook]_vars

(***************************************************************************)
(* Properties                                                              *)
(***************************************************************************)
\* a call was made in this step
Called == ncalls' = ncalls + 1

\* the snapshot row the call of this step targets
Target == findExpense(last'.id)

NonOverlapping(periods) ==
    \A p, q \in periods :
        p # q => \/ DayNum(p.endDate) <= DayNum(q.startDate)
                 \/ DayNum(q.endDate) <= DayNum(p.startDate)

\* C2: for every billing period with startDate < endDate and every desired day-of-month in
\* 1..31, getFixedPurchaseDateForPeriod returns a date d with startDate <= d < endDate.
C2_ProjectedDateInsidePeriod ==
    projOut # NullDate =>
        /\ DayNum(projIn.period.startDate) < DayNum(projIn.period.endDate)
        /\ projIn.day \in 1..31
        /\ InPeriod(projOut, projIn.period)

\* a projection that took the next-month shift and then the safety clamp
C2_Witness ==
    /\ projOut # NullDate
    /\ DayNum(buildCandidateInMonth(projIn.period.startDate, projIn.day))
         < DayNum(projIn.period.startDate)
    /\ DayNum(ShiftedCandidate(projIn.period.startDate, projIn.day))
         >= DayNum(projIn.period.endDate)
    /\ projOut = addDays(projIn.period.endDate, -1)

\* C7: updateExpense with scope=current on a template instance changes only the expense
\* row with the given id: the template and every other expense row, the siblings linked
\* to the same template among them, are left unchanged (and so are periods and exclusions).
C7_UpdateCurrentFrame ==
    [][(/\ Called
        /\ last'.op = "updateExpense"
        /\ last'.scope = "current"
        /\ Target # Null
        /\ Target.fixedTemplateId # NoTemplate)
       => /\ fixed_expense_templates' = fixed_expense_templates
          /\ {e \in expenses' : e.id # last'.id} = {e \in expenses : e.id # last'.id}
          /\ Ids(expenses') = Ids(expenses)
          /\ billing_periods' = billing_periods
          /\ fixed_expense_exclusions' = fixed_expense_exclusions]_vars

\* a scope=current edit went through on one instance while its template and a sibling
\* instance keep the old amount
C7_Witness ==
    /\ last.op = "updateExpense"
    /\ last.scope = "current"
    /\ last.result = "resolved"
    /\ \E e, sibling \in expenses, t \in fixed_expense_templates :
         /\ e.id = last.id
         /\ e.amount = 150
         /\ e.fixedTemplateId = t.id
         /\ t.amount = 100
         /\ sibling.id # e.id
         /\ sibling.fixedTemplateId = t.id
         /\ sibling.amount = 100

\* the rows of template T
InstancesOf(T, exp) == {e \in exp : e.fixedTemplateId = T}

\* the snapshot period the call of this step found for its target
TargetPeriod == CHOOSE p \in data.billingPeriods : p.id = last'.period

\* a template instance was the target of this step's call and a period owns it
ScopedCall(op, scope) ==
    /\ Called
    /\ last'.op = op
    /\ last'.scope = scope
    /\ Target # Null
    /\ Target.fixedTemplateId # NoTemplate
    /\ last'.period # 0

\* e lies in a snapshot period that starts at or after P
InOrAfter(e, P) ==
    \E q \in data.billingPeriods :
        DayNum(q.startDate) >= DayNum(P.startDate) /\ InPeriod(e.purchaseDate, q)

\* e lies in a snapshot period that starts before P
Before(e, P) ==
    \E q \in data.billingPeriods :
        DayNum(q.startDate) < DayNum(P.startDate) /\ InPeriod(e.purchaseDate, q)

\* expense rows this step created
Created == {e \in expenses' : e.id \notin Ids(expenses)}

\* C1: after any sequence of the expense and billing-period operations there are never two
\* expenses with the same fixedTemplateId whose purchaseDate lies in [startDate, endDate)
\* of the same billing period.
C1_OneInstancePerTemplateAndPeriod ==
    \A p \in billing_periods : \A e, f \in expenses :
        (/\ e.fixedTemplateId # NoTemplate
         /\ e.fixedTemplateId = f.fixedTemplateId
         /\ InPeriod(e.purchaseDate, p)
         /\ InPeriod(f.purchaseDate, p))
        => e = f

\* C3: after deleteExpense with scope=current removed template T's instance of period P, no
\* later addBillingPeriod creates an expense of T dated inside [P.startDate, P.endDate).
C3_RemovedInstanceNotRegenerated ==
    [][(Called /\ last'.op = "addBillingPeriod")
       => \A e \in Created : \A r \in removedCurrent :
            r.templateId = e.fixedTemplateId => ~InPeriod(e.purchaseDate, r)]_vars

\* C4: with pairwise non-overlapping periods, an updateExpense with scope=future and a new
\* amount on T's instance in P that reports success leaves T's stored amount at the new amount, every instance of T in P
\* and in every later-starting period at the new amount, and every instance of T in a period
\* starting before P unchanged.
C4_UpdateFutureAmount ==
    [][(/\ ScopedCall("updateExpense", "future")
        /\ last'.result = "resolved"
        /\ Defined(last'.updates, "amount")
        /\ NonOverlapping(data.billingPeriods))
       => /\ \A t \in fixed_expense_templates' :
                t.id = Target.fixedTemplateId => t.amount = last'.updates.amount
          /\ \A e \in InstancesOf(Target.fixedTemplateId, expenses) :
                InOrAfter(e, TargetPeriod)
                => \E f \in expenses' : f.id = e.id /\ f.amount = last'.updates.amount
          /\ \A e \in InstancesOf(Target.fixedTemplateId, expenses) :
                Before(e, TargetPeriod) => e \in expenses']_vars

\* C5: with pairwise non-overlapping periods, a deleteExpense with scope=future on T's
\* instance in P that reports success leaves T with isActive = false and endDate =
\* P.startDate, no instance of T in P or in a later-starting period, and every instance of T
\* in a period starting before P unchanged.
C5_DeleteFuture ==
    [][(/\ ScopedCall("deleteExpense", "future")
        /\ last'.result = "resolved"
        /\ NonOverlapping(data.billingPeriods))
       => /\ \A t \in fixed_expense_templates' :
                t.id = Target.fixedTemplateId
                => ~t.isActive /\ t.endDate = TargetPeriod.startDate
          /\ \A e \in InstancesOf(Target.fixedTemplateId, expenses') :
                ~InOrAfter(e, TargetPeriod)
          /\ \A e \in InstancesOf(Target.fixedTemplateId, expenses) :
                Before(e, TargetPeriod) => e \in expenses']_vars

\* the period row this step added
AddedPeriods == {p \in billing_periods' : p.id \notin Ids(billing_periods)}

\* C6: a deleteExpense with scope=current on active template T's instance in P that reports
\* success leaves an exclusion row for (T, P), removes that expense and no other, and leaves
\* T active; and a period added afterwards that lies in T's range still receives an
\* instance of T.
C6_DeleteCurrent ==
    [][/\ (/\ ScopedCall("deleteExpense", "current")
           /\ last'.result = "resolved"
           /\ \E t \in fixed_expense_templates : t.id = Target.fixedTemplateId /\ t.isActive)
          => /\ [templateId |-> Target.fixedTemplateId, billingPeriodId |-> last'.period]
                   \in fixed_expense_exclusions'
             /\ expenses' = expenses \ {Target}
             /\ fixed_expense_templates' = fixed_expense_templates
       /\ (Called /\ last'.op = "addBillingPeriod" /\ last'.result = "resolved")
          => \A p \in AddedPeriods : \A t \in fixed_expense_templates :
                (/\ t.isActive
                 /\ \E r \in removedCurrent : r.templateId = t.id
                 /\ DayNum(t.startDate) < DayNum(p.endDate))
                => \E e \in Created : e.fixedTemplateId = t.id /\ InPeriod(e.purchaseDate, p)]_vars

\* the calls of C8: the scoped operations and the materialization loops
ScopedOrMaterializing ==
    \/ last.op = "updateExpense" /\ last.scope = "future"
    \/ last.op = "deleteExpense"
    \/ last.op = "addExpense" /\ last.scope = "fixed"
    \/ last.op = "addBillingPeriod"

\* C8: whenever a store call inside a scoped operation or a materialization loop fails, the
\* operation issues no further store write after the failed call.
C8_NoWriteAfterFailedCall == ScopedOrMaterializing => ~last.after

\* C9: whenever a store call made by addExpense, updateExpense, deleteExpense or
\* addBillingPeriod returns an error, the operation ends with an error outcome to its caller.
C9_FailureSurfaces ==
    (last.op \in {"addExpense", "updateExpense", "deleteExpense", "addBillingPeriod"}
     /\ last.failed)
    => last.result = "rejected"

\* [template.startDate, template.endDate] meets the half-open [period.startDate, period.endDate)
OverlapsHalfOpen(t, p) ==
    /\ DayNum(t.startDate) < DayNum(p.endDate)
    /\ (t.endDate = NullDate \/ DayNum(t.endDate) >= DayNum(p.startDate))

\* C10: addBillingPeriod and addExpense(type=fixed) create no expense for a (template,
\* period) pair whose ranges do not overlap under half-open period semantics: every expense
\* they create is the projection of its template into a period the template overlaps.
C10_NoInstanceOutsideRange ==
    [][(Called /\ last'.op \in {"addBillingPeriod", "addExpense"})
       => \A e \in Created :
            e.fixedTemplateId # NoTemplate
            => \E t \in fixed_expense_templates', p \in billing_periods' :
                 /\ t.id = e.fixedTemplateId
                 /\ last'.op = "addBillingPeriod" => p \in AddedPeriods
                 /\ e.purchaseDate = getFixedPurchaseDateForPeriod(
                                         p, getDayOfMonthFromISODate(t.startDate))
                 /\ OverlapsHalfOpen(t, p)]_vars

C12_RetiredTemplateNotMaterialized ==
    [][(Called /\ last'.op = "addBillingPeriod")
       => \A T \in retired :
            /\ \A e \in Created : e.fixedTemplateId # T
            /\ \E t \in fixed_expense_templates' : t.id = T
            /\ InstancesOf(T, expenses) \subseteq expenses']_vars

\* C13: an expense whose type is variable is never modified or deleted by an operation that
\* targets a different expense: every call leaves every variable expense other than its
\* own target in the store as it was.
C13_VariableExpenseUntouched ==
    [][Called
       => \A e \in expenses :
            (/\ e.type = "variable"
             /\ ~(last'.op \in {"updateExpense", "deleteExpense"} /\ last'.id = e.id))
            => e \in expenses']_vars

\* C14: for an expense without fixedTemplateId, updateExpense and deleteExpense do the same
\* for scope=current and scope=future: only that one expense row is updated or deleted, no
\* template is patched, no exclusion is inserted and no other expense is touched.
C14_ScopeIgnoredWithoutTemplate ==
    [][(/\ Called
        /\ last'.op \in {"updateExpense", "deleteExpense"}
        /\ Target # Null
        /\ Target.fixedTemplateId = NoTemplate)
       => /\ \A F \in FailSets(1), tieHi \in BOOLEAN :
                /\ updateExpense(last'.id, last'.updates, "future", F, tieHi)
                     = updateExpense(last'.id, last'.updates, "current", F, tieHi)
                /\ deleteExpense(last'.id, "future", F, tieHi)
                     = deleteExpense(last'.id, "current", F, tieHi)
          /\ {e \in expenses' : e.id # last'.id} = {e \in expenses : e.id # last'.id}
          /\ last'.op = "updateExpense"
                => {e \in expenses' : e.id = last'.id}
                     \in {{Target}, {PatchCurrent(Target, last'.updates)}}
          /\ last'.op = "deleteExpense" => expenses' \in {expenses, expenses \ {Target}}
          /\ fixed_expense_templates' = fixed_expense_templates
          /\ fixed_expense_exclusions' = fixed_expense_exclusions
          /\ billing_periods' = billing_periods]_vars

\* a scope=future edit of an expense without template went through on that row while an
\* instance of a template keeps its amount
C14_Witness ==
    /\ last.op = "updateExpense"
    /\ last.scope = "future"
    /\ last.result = "resolved"
    /\ \E e, f \in expenses :
         /\ e.id = last.id
         /\ e.fixedTemplateId = NoTemplate
         /\ e.amount = 150
         /\ f.fixedTemplateId # NoTemplate
         /\ f.amount = 100

\* C15: an updateExpense with scope=future and a changed purchase date D, issued on T's
\* instance in period P, sets T's startDate to D, sets the edited instance's purchaseDate
\* to exactly D, and gives every other instance of T in a later-starting period Q the date
\* getFixedPurchaseDateForPeriod(Q, day-of-month of D), a date inside Q.
C15_DatePropagation ==
    [][(/\ ScopedCall("updateExpense", "future")
        /\ last'.result = "resolved"
        /\ Defined(last'.updates, "purchaseDate"))
       => LET D == last'.updates.purchaseDate
          IN  /\ \A t \in fixed_expense_templates' :
                    t.id = Target.fixedTemplateId => t.startDate = D
              /\ \E f \in expenses' : f.id = Target.id /\ f.purchaseDate = D
              /\ \A e \in InstancesOf(Target.fixedTemplateId, expenses) :
                  \A Q \in data.billingPeriods :
                    (/\ e.id # Target.id
                     /\ DayNum(Q.startDate) > DayNum(TargetPeriod.startDate)
                     /\ InPeriod(e.purchaseDate, Q))
                    => \E f \in expenses' :
                         /\ f.id = e.id
                         /\ f.purchaseDate
                              = getFixedPurchaseDateForPeriod(Q, getDayOfMonthFromISODate(D))
                         /\ InPeriod(f.purchaseDate, Q)]_vars

\* C16: getGoalForCategory(c, p) returns the amount of the override for (c, p) whenever one
\* exists, also when that amount is 0 and a non-zero default exists; otherwise the amount
\* of the default goal of c when one exists; otherwise 0.
C16_GoalResolution ==
    goalOut.done =>
        LET c == goalIn.categoryId
            p == goalIn.billingPeriodId
            HasOverride == \E o \in goalIn.goalOverrides :
                              o.categoryId = c /\ o.billingPeriodId = p
            HasDefault == \E g \in goalIn.goals : g.categoryId = c
        IN  /\ \A o \in goalIn.goalOverrides :
                  (o.categoryId = c /\ o.billingPeriodId = p) => goalOut.amount = o.amount
            /\ ~HasOverride
                  => \A g \in goalIn.goals : g.categoryId = c => goalOut.amount = g.amount
            /\ (~HasOverride /\ ~HasDefault) => goalOut.amount = 0

\* an override of amount 0 was returned although the category has a non-zero default
C16_Witness ==
    /\ goalOut.done
    /\ goalOut.amount = 0
    /\ \E o \in goalIn.goalOverrides :
         /\ o.categoryId = goalIn.categoryId
         /\ o.billingPeriodId = goalIn.billingPeriodId
         /\ o.amount = 0
    /\ \E g \in goalIn.goals : g.categoryId = goalIn.categoryId /\ g.amount = 500

\* C17: for a single period P and any date d, getBillingPeriodForDate and
\* getPeriodForExpense return P exactly when P.startDate <= d < P.endDate and nothing
\* otherwise; d = P.endDate is not matched and d = P.startDate is.
C17_LookupHalfOpen ==
    lookOut.done =>
        \A P \in data.billingPeriods :
            LET inside == /\ DayNum(P.startDate) <= DayNum(lookIn)
                          /\ DayNum(lookIn) < DayNum(P.endDate)
                found == IF inside THEN P ELSE Null
            IN  /\ lookOut.byDate = found
                /\ lookOut.byExpense = found
                /\ lookIn = P.endDate => lookOut.byDate = Null
                /\ lookIn = P.startDate => lookOut.byDate = P

\* a lookup of the period's own end date that found nothing
C17_Witness ==
    /\ lookOut.done
    /\ \E P \in data.billingPeriods : lookIn = P.endDate
    /\ lookOut.byDate = Null
    /\ lookOut.byExpense = Null

\* the projected period runs from day a of a month to day a of the next month
MonthToMonth(period) ==
    /\ period.endDate[3] = period.startDate[3]
    /\ <<period.endDate[1], period.endDate[2]>> =
          IF period.startDate[2] = 12 THEN <<period.startDate[1] + 1, 1>>
          ELSE <<period.startDate[1], period.startDate[2] + 1>>

\* C18: for a period from day a of month M to day a of month M+1,
\* getFixedPurchaseDateForPeriod returns day min(d, last day of M) of M when the desired
\* day d >= a and day d of M+1 when d < a; day 15 gives 2026-01-15 for
\* [2026-01-06, 2026-02-06) and 2026-02-15 for [2026-02-06, 2026-03-06).
C18_MonthToMonthProjection ==
    /\ (projOut # NullDate /\ MonthToMonth(projIn.period)) =>
          LET s == projIn.period.startDate
              e == projIn.period.endDate
              d == projIn.day
          IN  projOut = IF d >= s[3] THEN <<s[1], s[2], Min(d, DaysInMonth(s[1], s[2]))>>
                        ELSE <<e[1], e[2], d>>
    /\ getFixedPurchaseDateForPeriod(
          [id |-> 1, startDate |-> <<2026, 1, 6>>, endDate |-> <<2026, 2, 6>>], 15)
          = <<2026, 1, 15>>
    /\ getFixedPurchaseDateForPeriod(
          [id |-> 2, startDate |-> <<2026, 2, 6>>, endDate |-> <<2026, 3, 6>>], 15)
          = <<2026, 2, 15>>

\* a month-to-month period projected for a day before its start day: the result is in M+1
C18_Witness ==
    /\ projOut # NullDate
    /\ MonthToMonth(projIn.period)
    /\ projIn.day < projIn.period.startDate[3]
    /\ projOut = <<projIn.period.endDate[1], projIn.period.endDate[2], projIn.day>>

\* the periods of the store that end on or after D
EndingOnOrAfter(D) == {p \in billing_periods : DayNum(p.endDate) >= DayNum(D)}

\* C19: addExpense with type=fixed and date D creates one template (active, startDate D, no
\* endDate) and exactly one expense, of type fixed and linked to that template, for every
\* existing period whose endDate is on or after D, and no expense for any period whose
\* endDate is before D.
C19_FixedExpenseMaterialized ==
    [][(Called /\ last'.op = "addExpense" /\ last'.scope = "fixed" /\ last'.result = "resolved")
       => LET D == last'.updates.purchaseDate
              day == getDayOfMonthFromISODate(D)
              made == fixed_expense_templates' \ fixed_expense_templates
          IN  /\ fixed_expense_templates \subseteq fixed_expense_templates'
              /\ Cardinality(made) = 1
              /\ \A T \in made :
                    /\ T.isActive
                    /\ T.startDate = D
                    /\ T.endDate = NullDate
                    /\ \A e \in Created : e.type = "fixed" /\ e.fixedTemplateId = T.id
              /\ expenses \subseteq expenses'
              /\ Cardinality(Created) = Cardinality(EndingOnOrAfter(D))
              /\ \A p \in EndingOnOrAfter(D) :
                    \E e \in Created : e.purchaseDate = getFixedPurchaseDateForPeriod(p, day)
              /\ \A e \in Created :
                    \E p \in EndingOnOrAfter(D) :
                        e.purchaseDate = getFixedPurchaseDateForPeriod(p, day)]_vars

\* C20: updateExpense and deleteExpense called with an id that is not among the known
\* expenses issue no store write at all: expenses, templates and exclusions are unchanged.
C20_UnknownIdNoWrite ==
    [][(/\ Called
        /\ last'.op \in {"updateExpense", "deleteExpense"}
        /\ last'.id \notin Ids(data.expenses))
       => /\ expenses' = expenses
          /\ fixed_expense_templates' = fixed_expense_templates
          /\ fixed_expense_exclusions' = fixed_expense_exclusions
          /\ billing_periods' = billing_periods
          /\ ~last'.failed
          /\ last'.result = "resolved"
          /\ last'.toast = "none"
          /\ \A F \in FailSets(1), tieHi \in BOOLEAN :
                IF last'.op = "updateExpense"
                THEN updateExpense(last'.id, last'.updates, last'.scope, F, tieHi).acc.n = 0
                ELSE deleteExpense(last'.id, last'.scope, F, tieHi).acc.n = 0]_vars

\* an update with an unknown id was made on an account that holds a template and its
\* expenses, and nothing was reported
C20_Witness ==
    /\ last.op = "updateExpense"
    /\ last.id \notin Ids(data.expenses)
    /\ last.scope = "future"
    /\ last.toast = "none"
    /\ data.expenses # {}
    /\ fixed_expense_templates # {}

\* e carries the description, amount and category of the update
Carries(e, updates) ==
    /\ e.description = updates.description
    /\ e.amount = updates.amount
    /\ e.categoryId = updates.categoryId

\* C21: if an updateExpense with scope=future stops partway through its store calls, the
\* state left behind has the template patched, and the patched instances are those of the
\* earliest periods counted from the edited instance's period forward: every unpatched
\* instance belongs to a period starting later than every patched one.
C21_PartialPropagationEarliestFirst ==
    [][(/\ Called
        /\ last'.op = "updateExpense"
        /\ last'.result = "stopped"
        /\ last'.period # 0
        /\ Defined(last'.updates, "amount")
        /\ NonOverlapping(billing_periods)
        /\ C1_OneInstancePerTemplateAndPeriod
        /\ \A e \in InstancesOf(Target.fixedTemplateId, expenses) : ~Carries(e, last'.updates))
       => LET T == Target.fixedTemplateId
              instances == InstancesOf(T, expenses)
              patched == {o \in instances :
                            \E e \in expenses' : e.id = o.id /\ Carries(e, last'.updates)}
          IN  /\ \A t \in fixed_expense_templates' : t.id = T => Carries(t, last'.updates)
              /\ \A f \in patched : \A q \in billing_periods :
                    InPeriod(f.purchaseDate, q)
                    => DayNum(q.startDate) >= DayNum(TargetPeriod.startDate)
              /\ \A o \in instances \ patched : \A f \in patched :
                    \A p, q \in billing_periods :
                        (InPeriod(o.purchaseDate, p) /\ InPeriod(f.purchaseDate, q))
                        => DayNum(p.startDate) > DayNum(q.startDate)]_vars

\* C22: when a deleteExpense with scope=future on template T's instance in period P
\* interleaves, store call by store call, with an addBillingPeriod for a period starting
\* after P, then once both have finished no expense of T exists in P or in any period
\* whose startDate is at or after P.startDate.
C22_DeleteFutureAgainstNewPeriod ==
    (/\ sessions.a.pc = "done"
     /\ sessions.a.op = "deleteExpense"
     /\ sessions.a.period # Null
     /\ sessions.b.pc = "done"
     /\ DayNum(sessions.b.newPeriod.startDate) > DayNum(sessions.a.period.startDate)
     /\ NonOverlapping(billing_periods))
    => \A e \in InstancesOf(sessions.a.template, expenses) : \A p \in billing_periods :
           DayNum(p.startDate) >= DayNum(sessions.a.period.startDate)
           => ~InPeriod(e.purchaseDate, p)

\* C23: after an updateExpense with scope=future changed template T's description, amount,
\* category and purchase date, every period added afterwards that lies in T's range gets
\* an instance of T carrying the new description, amount and category and dated on the new
\* day-of-month inside that period.
C23_EditedTemplateMaterialized ==
    [][(Called /\ last'.op = "addBillingPeriod" /\ last'.result = "resolved")
       => \A h \in edited : \A newPeriod \in billing_periods' \ billing_periods :
            \A T \in fixed_expense_templates :
                (/\ T.id = h.template
                 /\ T.isActive
                 /\ T.endDate = NullDate
                 /\ T.id \notin retired
                 /\ {"description", "amount", "categoryId", "purchaseDate"}
                       \subseteq h.updates.fields
                 /\ DayNum(h.updates.purchaseDate) <= DayNum(newPeriod.endDate))
                => \E e \in Created :
                       /\ e.fixedTemplateId = T.id
                       /\ Carries(e, h.updates)
                       /\ InPeriod(e.purchaseDate, newPeriod)
                       /\ getDayOfMonthFromISODate(e.purchaseDate)
                            = getDayOfMonthFromISODate(h.updates.purchaseDate)]_vars

\* C24: after any sequence of setCategoryGoal, setCategoryGoals, setCategoryGoalOverride and
\* deleteCategoryGoalOverride calls, getGoalForCategory returns a value between 0 and 100
\* inclusive for every category and period.
C24_GoalIsPercentage ==
    \A categoryId \in GoalCategories, billingPeriodId \in GoalPeriods :
        getGoalForCategory(goalData.goals, goalData.goalOverrides,
                           categoryId, billingPeriodId) \in 0..100

\* C25: when an addExpense(type=fixed) and an addBillingPeriod run in two sessions and
\* interleave store call by store call, and the new template's range covers the new period,
\* then once both have finished exactly one expense of the new template exists in the new
\* period: never zero and never two.
C25_OneInstanceInNewPeriod ==
    (/\ sessions.a.pc = "done"
     /\ sessions.a.op = "addExpense"
     /\ sessions.b.pc = "done"
     /\ DayNum(sessions.a.target.purchaseDate) <= DayNum(sessions.b.newPeriod.endDate)
     /\ NonOverlapping(billing_periods))
    => Cardinality({e \in InstancesOf(sessions.a.template, expenses) :
                      InPeriod(e.purchaseDate, sessions.b.newPeriod)}) = 1

\* C26: deleteExpense on an existing expense always removes that expense row from the
\* store, for either scope, also when the expense is a template instance whose purchaseDate
\* lies in no billing period.  Stated for calls none of whose store calls failed, made in
\* a state with at most one instance per template and period.
C26_DeleteRemovesTheRow ==
    [][(/\ Called
        /\ last'.op = "deleteExpense"
        /\ Target # Null
        /\ Target \in expenses
        /\ C1_OneInstancePerTemplateAndPeriod
        /\ last'.result = "resolved"
        /\ ~last'.failed)
       => \A e \in expenses' : e.id # last'.id]_vars

\* C27: updateExpense with scope=future on a template instance always applies the new field
\* values to the edited expense itself, also when that expense's purchaseDate lies in no
\* billing period; it never patches the template while leaving the edited expense unchanged.
\* Stated for calls none of whose store calls failed, made in a state with at most one
\* instance per template and period.
C27_EditedExpensePatched ==
    [][(/\ Called
        /\ last'.op = "updateExpense"
        /\ last'.scope = "future"
        /\ Target # Null
        /\ Target \in expenses
        /\ Target.fixedTemplateId # NoTemplate
        /\ Defined(last'.updates, "amount")
        /\ C1_OneInstancePerTemplateAndPeriod
        /\ last'.result = "resolved"
        /\ ~last'.failed)
       => \E e \in expenses' :
             /\ e.id = last'.id
             /\ Carries(e, last'.updates)
             /\ Defined(last'.updates, "purchaseDate")
                => e.purchaseDate = last'.updates.purchaseDate]_vars

\* C28: in every reachable state a template has isActive = false exactly when its endDate
\* is set, and no operation turns an inactive template back to active, clears its endDate
\* or removes it.
C28_RetiredStaysRetired ==
    /\ [](\A t \in fixed_expense_templates : (~t.isActive) <=> (t.endDate # NullDate))
    /\ [][\A t \in fixed_expense_templates :
            ~t.isActive
            => \E u \in fixed_expense_templates' :
                  u.id = t.id /\ ~u.isActive /\ u.endDate # NullDate]_vars

\* an edit with scope=future has patched a template that was retired before
C28_Witness ==
    /\ last.op = "updateExpense"
    /\ last.scope = "future"
    /\ last.result = "resolved"
    /\ ~last.failed
    /\ Defined(last.updates, "amount")
    /\ \E e \in expenses : \E t \in fixed_expense_templates :
          /\ e.id = last.id
          /\ t.id = e.fixedTemplateId
          /\ ~t.isActive
          /\ t.endDate # NullDate
          /\ Carries(t, last.updates)

\* C29: addExpense with type=fixed and purchase date D, where D lies in an existing period P
\* with P.startDate < P.endDate, creates in P an instance whose purchaseDate is exactly D.
\* Stated for calls none of whose store calls failed and a period the snapshot holds.
C29_FixedExpenseKeepsItsDate ==
    [][(/\ Called
        /\ last'.op = "addExpense"
        /\ last'.scope = "fixed"
        /\ last'.result = "resolved"
        /\ ~last'.failed)
       => \A P \in billing_periods \cap data.billingPeriods :
             (/\ DayNum(P.startDate) < DayNum(P.endDate)
              /\ InPeriod(last'.updates.purchaseDate, P))
             => \E e \in expenses' \ expenses :
                   /\ e.fixedTemplateId # NoTemplate
                   /\ e.purchaseDate = last'.updates.purchaseDate]_vars

\* C30: updateBillingPeriod and deleteBillingPeriod leave every expense row and every
\* template row unchanged, whether the call resolves or rejects; expenses dated inside a
\* deleted period stay in the store.
C30_PeriodOpsFrame ==
    [][(/\ Called
        /\ last'.op \in {"updateBillingPeriod", "deleteBillingPeriod"})
       => /\ expenses' = expenses
          /\ fixed_expense_templates' = fixed_expense_templates]_vars

\* the period that held a template's only instance was deleted and the instance remains
C30_Witness ==
    /\ ncalls = 2
    /\ last.op = "deleteBillingPeriod"
    /\ last.result = "resolved"
    /\ \A p \in billing_periods : p.id # last.id
    /\ \E e \in expenses :
          /\ e.fixedTemplateId # NoTemplate
          /\ \A p \in billing_periods : ~InPeriod(e.purchaseDate, p)

====
